---- MODULE Spec2Model ----
(***************************************************************************)
(* Model of the Ollama plugin (package ollama) and of the dotprompt        *)
(* plugin of genkit, from src/go/plugins/dotprompt/genkit.go.              *)
(*                                                                         *)
(* PluginSpec : concurrent callers of ollama.Init on the package-level     *)
(*              `state` (mutex, initted, serverAddress).                   *)
(* GenSpec    : one call of generator.generate against an HTTP server and  *)
(*              a user callback, both modelled as the environment.         *)
(***************************************************************************)
EXTENDS Integers, Sequences, FiniteSets, TLC

\* ------------------------------------------------------------------ bounds
NumProcs == 2
MaxCalls == 3

Procs == 1..NumProcs
NoProc == 0

\* ------------------------------------------------------------ Config values
\* A *Config is nil or points to a Config with a ServerAddress string.
NilConfig == [isNil |-> TRUE, ServerAddress |-> ""]
ConfigOf(a) == [isNil |-> FALSE, ServerAddress |-> a]
GoodAddrs == {"http://a", "http://b"}
Configs == {NilConfig} \cup {ConfigOf(a) : a \in GoodAddrs \cup {""}}
ValidConfig(c) == ~c.isNil /\ c.ServerAddress # ""

\* ------------------------------------------------------- pointers, errors
\* A Go pointer is nil or refers to one value.
Nil == <<>>
Ref(v) == <<v>>
Deref(p) == p[1]

\* An error value is the sequence of the message fragments it prints;
\* the nil error is the empty sequence.
NoErr == <<>>
errorsNew(msg) == <<msg>>
\* fmt.Errorf("<prefix>: %v", err): a new error that formats err into its text.
Errorf_Passthrough(prefix, err) == err
Errorf(prefix, err) == <<prefix>> \o err

\* ------------------------------------------------------------- ai.Part
\* MaxParts: parts in one request, over all its messages.
\* MaxLines: lines the scanner delivers from one response body.
MaxParts == 2
MaxLines == 2

TextPart(s) == [kind |-> "text", text |-> s, uri |-> ""]
MediaPart(u) == [kind |-> "media", text |-> "", uri |-> u]
OtherPart == [kind |-> "toolRequest", text |-> "", uri |-> ""]
NewTextPart(s) == TextPart(s)
IsText(part) == part.kind = "text"
IsMedia(part) == part.kind = "media"

\* uri.Data(part): the bytes of a data: URI, or an error for any other URI.
uriData(part) ==
    IF part.uri = "data:image/png;base64,AA"
      THEN [data |-> "img", err |-> NoErr]
      ELSE [data |-> "", err |-> errorsNew("invalid data URI")]
\* base64.StdEncoding.EncodeToString
base64Encode(data) == "b64(" \o data \o ")"

InputParts ==
    {TextPart("p"), MediaPart("data:image/png;base64,AA"), MediaPart("gs://x"), OtherPart}
InputRoles == {"user", "system"}
\* Messages with exactly k parts, and message lists with at most n parts in all.
MessagesWith(k) == [Role : InputRoles, Content : [1..k -> InputParts]]
RECURSIVE MessageLists(_)
MessageLists(n) ==
    {<<>>} \cup UNION {{<<m>> \o rest : m \in MessagesWith(k), rest \in MessageLists(n - k)}
                         : k \in 1..n}
\* *ai.ModelRequest values handed to generate
Requests == {[Messages |-> ms] : ms \in MessageLists(MaxParts)}

\* roleMapping[role]; a role without an entry maps to the zero string.
roleMapping(role) ==
    CASE role = "user" -> "user"
      [] role = "model" -> "assistant"
      [] role = "system" -> "system"
      [] OTHER -> ""

\* ------------------------------------------------------- request building
RECURSIVE convertPartsFrom(_, _, _)
convertPartsFrom(parts, i, message) ==
    IF i > Len(parts)
      THEN [message |-> Ref(message), err |-> NoErr]
      ELSE LET part == parts[i] IN
           IF IsText(part)
             THEN convertPartsFrom(parts, i + 1,
                      [message EXCEPT !.Content = @ \o part.text])
           ELSE IF IsMedia(part)
             THEN LET d == uriData(part) IN
                  IF d.err # NoErr
                    THEN [message |-> Nil, err |-> d.err]
                    ELSE convertPartsFrom(parts, i + 1,
                             [message EXCEPT !.Images = Append(@, base64Encode(d.data))])
           ELSE [message |-> Nil, err |-> errorsNew("unknown content type")]

convertParts(role, parts) ==
    convertPartsFrom(parts, 1, [Role |-> roleMapping(role), Content |-> "", Images |-> <<>>])

RECURSIVE concatText(_, _)
concatText(parts, i) ==
    IF i > Len(parts) THEN ""
    ELSE (IF IsText(parts[i]) THEN parts[i].text ELSE "") \o concatText(parts, i + 1)

RECURSIVE concatMessagesFrom(_, _, _)
concatMessagesFrom(msgs, i, roles) ==
    IF i > Len(msgs) THEN ""
    ELSE (IF msgs[i].Role \in roles THEN concatText(msgs[i].Content, 1) ELSE "")
            \o concatMessagesFrom(msgs, i + 1, roles)
concatMessages(input, roles) == concatMessagesFrom(input.Messages, 1, roles)

\* All parts of the request that the role filter lets through, in order.
RECURSIVE filteredParts(_, _, _)
filteredParts(msgs, i, roles) ==
    IF i > Len(msgs) THEN <<>>
    ELSE (IF msgs[i].Role \in roles THEN msgs[i].Content ELSE <<>>)
            \o filteredParts(msgs, i + 1, roles)

RECURSIVE concatImagesFrom(_, _, _)
concatImagesFrom(parts, i, images) ==
    IF i > Len(parts)
      THEN [images |-> images, err |-> NoErr]
      ELSE IF ~IsMedia(parts[i])
        THEN concatImagesFrom(parts, i + 1, images)
        ELSE LET d == uriData(parts[i]) IN
             IF d.err # NoErr
               THEN [images |-> <<>>, err |-> d.err]
               ELSE concatImagesFrom(parts, i + 1, Append(images, base64Encode(d.data)))
concatImages(input, roleFilter) ==
    concatImagesFrom(filteredParts(input.Messages, 1, roleFilter), 1, <<>>)

\* The chat branch of generate: convert every message, stop at the first error.
RECURSIVE chatMessagesFrom(_, _, _)
chatMessagesFrom(msgs, i, out) ==
    IF i > Len(msgs)
      THEN [messages |-> out, cause |-> NoErr, err |-> NoErr]
      ELSE LET c == convertParts(msgs[i].Role, msgs[i].Content) IN
           IF c.err # NoErr
             THEN [messages |-> <<>>, cause |-> c.err,
                   err |-> Errorf("failed to convert message parts", c.err)]
             ELSE chatMessagesFrom(msgs, i + 1, Append(out, Deref(c.message)))

\* The payload generate builds (lines 400-429), or the error it returns.
buildPayload(gen, input, stream) ==
    IF gen.model.Type # "chat"
      THEN LET im == concatImages(input, {"user", "model"}) IN
           IF im.err # NoErr
             THEN [payload |-> Nil, cause |-> im.err,
                   err |-> Errorf("failed to grab image parts", im.err)]
             ELSE [payload |-> Ref([Model |-> gen.model.Name,
                                    Prompt |-> concatMessages(input, {"user", "model", "tool"}),
                                    System |-> concatMessages(input, {"system"}),
                                    Images |-> im.images,
                                    Stream |-> stream]),
                   cause |-> NoErr, err |-> NoErr]
      ELSE LET cm == chatMessagesFrom(input.Messages, 1, <<>>) IN
           IF cm.err # NoErr
             THEN [payload |-> Nil, cause |-> cm.cause, err |-> cm.err]
             ELSE [payload |-> Ref([Messages |-> cm.messages,
                                    Model |-> gen.model.Name,
                                    Stream |-> stream]),
                   cause |-> NoErr, err |-> NoErr]

\* endpoint := g.serverAddress + "/api/chat" (or "/api/generate")
endpointOf_AlwaysChat(gen) == gen.serverAddress \o "/api/chat"
endpointOf(gen) ==
    IF gen.model.Type # "chat"
      THEN gen.serverAddress \o "/api/generate"
      ELSE gen.serverAddress \o "/api/chat"

\* http.NewRequest fails when the endpoint does not parse as a URL; an address
\* such as 127.0.0.1:11434 (no scheme, colon in the first path segment) does not.
BadURLAddr == "127.0.0.1:11434"
GenAddrs == {"http://a", BadURLAddr}
newRequestErr(endpoint) ==
    IF endpoint \in {BadURLAddr \o "/api/chat", BadURLAddr \o "/api/generate"}
      THEN errorsNew("parse: first path segment in URL cannot contain colon")
      ELSE NoErr

\* ------------------------------------------------------ response decoding
\* One JSON document of a response body (a whole body, or one line of a stream).
Doc(j, m, r) == [json |-> j, role |-> IF m = "" THEN "" ELSE "assistant",
                 message |-> m, response |-> r]
Docs == {Doc("syntax", "", ""), Doc("array", "", "")}
           \cup {Doc("object", "x", "y"), Doc("object", "", "")}
\* json.Unmarshal into a struct: a syntax error or a non-object value fails.
jsonUnmarshal(doc) ==
    CASE doc.json = "syntax" -> errorsNew("invalid character")
      [] doc.json = "array" -> errorsNew("json: cannot unmarshal array into Go value")
      [] OTHER -> NoErr

translateChatResponse(responseData) ==
    LET uerr == jsonUnmarshal(responseData) IN
    IF uerr # NoErr
      THEN [response |-> Nil, err |-> Errorf("failed to parse response JSON", uerr)]
      ELSE [response |-> Ref([Request |-> Nil,
                              FinishReason |-> "stop",
                              Message |-> [Role |-> responseData.role,
                                           Content |-> <<NewTextPart(responseData.message)>>],
                              Usage |-> "nil"]),
            err |-> NoErr]

translateModelResponse(responseData) ==
    LET uerr == jsonUnmarshal(responseData) IN
    IF uerr # NoErr
      THEN [response |-> Nil, err |-> Errorf("failed to parse response JSON", uerr)]
      ELSE [response |-> Ref([Request |-> Nil,
                              FinishReason |-> "stop",
                              Message |-> [Role |-> "model",
                                           Content |-> <<NewTextPart(responseData.response)>>],
                              Usage |-> "empty"]),
            err |-> NoErr]

translateChatChunk_NoError(line) ==
    [chunk |-> Ref([Content |-> <<NewTextPart(line.message)>>]), err |-> NoErr]
translateChatChunk(line) ==
    LET uerr == jsonUnmarshal(line) IN
    IF uerr # NoErr
      THEN [chunk |-> Nil, err |-> Errorf("failed to parse response JSON", uerr)]
      ELSE [chunk |-> Ref([Content |-> <<NewTextPart(line.message)>>]), err |-> NoErr]

translateGenerateChunk(line) ==
    LET uerr == jsonUnmarshal(line) IN
    IF uerr # NoErr
      THEN [chunk |-> Nil, err |-> Errorf("failed to parse response JSON", uerr)]
      ELSE [chunk |-> Ref([Content |-> <<NewTextPart(line.response)>>]), err |-> NoErr]

\* The merge loop of lines 493-503.
mergeContent_Reversed(chs, i) ==
    IF chs = <<>> THEN <<>>
    ELSE LET F[k \in 0..Len(chs)] ==
                 IF k = 0 THEN <<>> ELSE Deref(chs[k]).Content \o F[k - 1]
         IN F[Len(chs)]
RECURSIVE mergeContent(_, _)
mergeContent(chs, i) ==
    IF i > Len(chs) THEN <<>>
    ELSE Deref(chs[i]).Content \o mergeContent(chs, i + 1)

\* --------------------------------------------- dotprompt: buildVariables
\* MaxFields: fields of a struct handed to buildVariables.
MaxFields == 2

\* A struct field as reflect shows it: its Go name, whether it is exported
\* (PkgPath == ""), its json tag split at the commas (<<>> without a tag)
\* and its value. Field i of a struct has the i-th Go name.
GoFieldNames == <<"A", "B", "C", "D">>
JsonTags ==
    {<<>>, <<"", "omitempty">>, <<"x">>, <<"x", "omitempty">>, <<"y", "string", "omitempty">>}
FieldValues == {0, 7}
FieldShapes == [exported : BOOLEAN, tag : JsonTags, value : FieldValues]
StructsOf(k) ==
    {[i \in 1..k |-> [Name |-> GoFieldNames[i], exported |-> sh[i].exported,
                      tag |-> sh[i].tag, value |-> sh[i].value]]
        : sh \in [1..k -> FieldShapes]}
StructFields == UNION {StructsOf(k) : k \in 0..MaxFields}

\* Values of the `variables any` argument: the untyped nil, a struct, a map
\* (of type map[string]any or of another map type), some other kind; ptr
\* tells whether the value is held directly, through a pointer, or is a nil
\* pointer of that type.
NoEntries == [k \in {} |-> 0]
AnyValue(kind, ptr, mapType, fields, entries) ==
    [kind |-> kind, ptr |-> ptr, mapType |-> mapType, fields |-> fields, entries |-> entries]
NilVariables == AnyValue("nil", "no", "", <<>>, NoEntries)
StructVariables ==
    {AnyValue("struct", ptr, "", fs, NoEntries) : ptr \in {"no", "yes"}, fs \in StructFields}
        \cup {AnyValue("struct", "nil", "", <<>>, NoEntries)}
MapVariables ==
    {AnyValue("map", ptr, mt, <<>>, es) :
        ptr \in {"no", "yes"},
        mt \in {"map[string]any", "map[string]string"},
        es \in {NoEntries, [k \in {"x"} |-> 7]}}
OtherVariables == {AnyValue(kind, "no", "", <<>>, NoEntries) : kind \in {"int", "slice"}}
VariablesValues == {NilVariables} \cup StructVariables \cup MapVariables \cup OtherVariables

\* reflect.Indirect(reflect.ValueOf(variables)).Kind(): a pointer is followed,
\* a nil pointer gives the invalid Value.
indirectKind(variables) ==
    IF variables.ptr = "nil" THEN "invalid" ELSE variables.kind

\* variables.(map[string]any): holds only when the dynamic type of the
\* interface value is exactly map[string]any.
assertsToMap(variables) ==
    variables.kind = "map" /\ variables.ptr = "no" /\ variables.mapType = "map[string]any"

\* jsonName, rest, _ := strings.Cut(jsonTag, ","); an empty name is replaced
\* by the Go field name.
jsonNameOf(field) ==
    IF field.tag = <<>> \/ field.tag[1] = "" THEN field.Name ELSE field.tag[1]
tagRest(field) == IF field.tag = <<>> THEN <<>> ELSE Tail(field.tag)

\* The loop over the remaining tag options looking for "omitempty".
hasOmitEmpty_FirstOnly(rest) == rest # <<>> /\ rest[1] = "omitempty"
hasOmitEmpty(rest) == \E i \in 1..Len(rest) : rest[i] = "omitempty"

IsZero(value) == value = 0

mapSet(m, key, value) ==
    [k \in DOMAIN m \cup {key} |-> IF k = key THEN value ELSE m[k]]

\* The fieldLoop of buildVariables, from field i on.
RECURSIVE fieldLoop(_, _, _)
fieldLoop(fields, i, m) ==
    IF i > Len(fields) THEN m
    ELSE LET ft == fields[i] IN
         IF ~ft.exported
           THEN fieldLoop(fields, i + 1, m)
         ELSE IF IsZero(ft.value) /\ hasOmitEmpty(tagRest(ft))
           THEN fieldLoop(fields, i + 1, m)
         ELSE fieldLoop(fields, i + 1, mapSet(m, jsonNameOf(ft), ft.value))

BvReturned(m, err) == [state |-> "returned", map |-> m, err |-> err]
BvPanicked == [state |-> "panic", map |-> Nil, err |-> NoErr]
BvNotCalled == [state |-> "none", map |-> Nil, err |-> NoErr]

\* Prompt.buildVariables(variables)
buildVariables(variables) ==
    IF variables.kind = "nil"
      THEN BvReturned(Nil, NoErr)
    ELSE IF indirectKind(variables) = "map"
      THEN IF assertsToMap(variables)
             THEN BvReturned(Ref(variables.entries), NoErr)
             ELSE BvPanicked
    ELSE IF indirectKind(variables) # "struct"
      THEN BvReturned(Nil,
               errorsNew("dotprompt: fields not a struct or pointer to a struct or a map"))
    ELSE BvReturned(Ref(fieldLoop(variables.fields, 1, NoEntries)), NoErr)

\* ------------------------------------------------------ dotprompt: Prompt
\* MaxRegisters: Register calls on the prompt.
MaxRegisters == 2

\* Model names are strings that Generate cuts at "/": sequences of
\* characters here.
ModelNameStrings == {<<>>, <<"o", "/", "l">>, <<"l">>, <<"o", "/", "x">>}

RECURSIVE sepIndex(_, _, _)
sepIndex(s, sep, i) ==
    IF i > Len(s) THEN 0
    ELSE IF s[i] = sep THEN i
    ELSE sepIndex(s, sep, i + 1)

\* strings.Cut(s, sep)
stringsCut(s, sep) ==
    LET i == sepIndex(s, sep, 1) IN
    IF i = 0
      THEN [before |-> s, after |-> <<>>, found |-> FALSE]
      ELSE [before |-> SubSeq(s, 1, i - 1), after |-> SubSeq(s, i + 1, Len(s)), found |-> TRUE]

\* An ai.Model, known by its provider and name.
ModelOf(provider, name) == [provider |-> provider, name |-> name]
PromptModel == ModelOf(<<"v">>, <<"g">>)
RegisteredModels == {ModelOf(<<"o">>, <<"l">>)}

\* ai.LookupModel(provider, name): the registered model or nil.
LookupModel(provider, name) ==
    IF ModelOf(provider, name) \in RegisteredModels THEN Ref(ModelOf(provider, name)) ELSE Nil

\* The fields of a Prompt (with its embedded Config) that Register and
\* Generate read. InputSchema and OutputSchema are pointers to a schema.
Prompts ==
    [Name : {"", "greet"},
     Variant : {"", "formal"},
     Model : {Nil, Ref(PromptModel)},
     ModelName : ModelNameStrings,
     GenerationConfig : {Ref("promptConfig")},
     InputSchema : {Nil, Ref([Version |-> "draft/2020-12"])},
     OutputSchema : {Nil, Ref("object"), Ref("true"), Ref("unmarshalable")}]
ZeroPrompt ==
    [Name |-> "", Variant |-> "", Model |-> Nil, ModelName |-> <<>>, GenerationConfig |-> Nil,
     InputSchema |-> Nil, OutputSchema |-> Nil]

\* PromptRequest values.
RequestVariables ==
    {NilVariables,
     AnyValue("struct", "no", "", <<[Name |-> "A", exported |-> TRUE, tag |-> <<"x">>, value |-> 7]>>,
              NoEntries),
     AnyValue("int", "no", "", <<>>, NoEntries),
     AnyValue("map", "yes", "map[string]any", <<>>, NoEntries)}
PromptRequests ==
    [Variables : RequestVariables,
     Candidates : {0, 2},
     Config : {Nil, Ref("requestConfig")},
     Context : {<<>>, <<"doc">>},
     Model : ModelNameStrings]
ZeroPromptRequest ==
    [Variables |-> NilVariables, Candidates |-> 0, Config |-> Nil, Context |-> <<>>, Model |-> <<>>]

\* The outcomes of building a request: (request, error) or a panic.
Built(req, err) == [state |-> "returned", req |-> req, err |-> err]
BuildPanicked == [state |-> "panic", req |-> Nil, err |-> NoErr]

\* Lines 116-126: the output schema marshalled to JSON and unmarshalled into
\* a map. A schema with a value json cannot encode fails to marshal; the
\* boolean schema marshals to `true`, which does not unmarshal into a map.
outputSchemaOf(p) ==
    IF p.OutputSchema = Nil
      THEN [schema |-> Nil, err |-> NoErr]
    ELSE IF Deref(p.OutputSchema) = "unmarshalable"
      THEN [schema |-> Nil,
            err |-> Errorf("failed to marshal output schema JSON", errorsNew("json: unsupported type"))]
    ELSE IF Deref(p.OutputSchema) = "true"
      THEN [schema |-> Nil,
            err |-> Errorf("failed to unmarshal output schema JSON",
                           errorsNew("json: cannot unmarshal bool"))]
    ELSE [schema |-> p.OutputSchema, err |-> NoErr]

\* &ai.ModelRequest{}: every field at its zero value.
ZeroModelRequest ==
    [Messages |-> <<>>, Config |-> Nil, Context |-> <<>>, Output |-> Nil, Tools |-> <<>>,
     Candidates |-> 0]

\* Prompt.buildRequest(ctx, input); renderErr is what p.RenderMessages
\* returns as its error.
buildRequest(p, input, renderErr) ==
    LET bv == buildVariables(input) IN
    IF bv.state = "panic"
      THEN BuildPanicked
    ELSE IF bv.err # NoErr
      THEN Built(Nil, bv.err)
    ELSE IF renderErr # NoErr
      THEN Built(Nil, renderErr)
    ELSE IF outputSchemaOf(p).err # NoErr
      THEN Built(Nil, outputSchemaOf(p).err)
    ELSE Built(Ref([ZeroModelRequest EXCEPT
                       !.Messages = <<[template |-> "TemplateText", variables |-> bv.map]>>,
                       !.Config = p.GenerationConfig,
                       !.Output = Ref([Format |-> "text", Schema |-> outputSchemaOf(p).schema])]),
               NoErr)

\* p.prompt.Render(ctx, input): the action defined at line 167 runs the
\* render function it was given, p.buildRequest.
promptRender(p, input, renderErr) == buildRequest(p, input, renderErr)

\* Lines 191-197: fields of pr that override those of the prompt config.
overrideFromRequest(genReq, pr) ==
    [genReq EXCEPT !.Config = IF pr.Config # Nil THEN pr.Config ELSE @,
                   !.Context = IF Len(pr.Context) > 0 THEN pr.Context ELSE @]

\* Lines 199-217: the model Generate hands the request to.
usesRequestModel_Always(p) == TRUE
usesRequestModel(p) == p.Model = Nil
effectiveModelName(p, pr) == IF pr.Model # <<>> THEN pr.Model ELSE p.ModelName
resolveModel(p, pr) ==
    IF ~usesRequestModel(p)
      THEN [model |-> p.Model, err |-> NoErr]
    ELSE IF effectiveModelName(p, pr) = <<>>
      THEN [model |-> Nil, err |-> errorsNew("dotprompt execution: model not specified")]
    ELSE LET cut == stringsCut(effectiveModelName(p, pr), "/") IN
         IF ~cut.found
           THEN [model |-> Nil, err |-> errorsNew("dotprompt model not in provider/name format")]
         ELSE IF LookupModel(cut.before, cut.after) = Nil
           THEN [model |-> Nil, err |-> <<"no model named", cut.after, "for provider", cut.before>>]
         ELSE [model |-> LookupModel(cut.before, cut.after), err |-> NoErr]

\* Lines 148-154: the name the prompt action is defined under.
registeredName(p) ==
    IF p.Variant # "" THEN p.Name \o "." \o p.Variant ELSE p.Name

\* What a Register or Generate call came to.
Returned2(resp, err) == [state |-> "returned", resp |-> resp, err |-> err]
Panicked2 == [state |-> "panic", resp |-> Nil, err |-> NoErr]
NotCalled2 == [state |-> "none", resp |-> Nil, err |-> NoErr]

VARIABLES
    mu,             \* state.mu: the goroutine holding the mutex, or NoProc
    initted,        \* state.initted
    serverAddress,  \* state.serverAddress
    ipc,            \* position of each goroutine inside Init
    icfg,           \* the cfg argument of each goroutine's current Init call
    ires,           \* the outcome its current call is about to deliver
    initLog,        \* completed Init calls, in the order they returned
    defined,        \* the generators DefineModel has created and registered
    defPanicAt,     \* Len(initLog) when DefineModel last panicked, -1 if it never did
    g,              \* the generator DefineModel created (model, serverAddress)
    gpc,            \* position of the generate call
    input,          \* generate's input argument (*ai.ModelRequest)
    cbSet,          \* whether generate's cb argument is non-nil
    requests,       \* HTTP requests handed to client.Do, in order
    status,         \* resp.StatusCode, 0 before a response arrived
    body,           \* what io.ReadAll returned in the cb == nil branch
    lines,          \* lines the scanner has returned so far
    chunks,         \* generate's local slice of decoded chunks
    cbLog,          \* chunks the callback was invoked with, in invocation order
    cbActive,       \* callback invocations that have not returned yet
    ret,            \* what the generate call delivered to its caller
    stepErr,        \* the error the failing translation or HTTP step produced
    firstCbFailed,  \* whether the first callback invocation returned an error
    bvIn,           \* the variables argument of the buildVariables call
    bvRet,          \* what buildVariables returned
    pcfg,           \* the Prompt's fields (p)
    prompt,         \* p.prompt: the defined prompt action, or nil
    actions,        \* names of the prompt actions defined with ai.DefinePrompt
    regLog,         \* what each Register call came to, in call order
    ppc,            \* position of the Prompt.Generate call
    preq,           \* the PromptRequest (pr) of the Generate call
    modelCalls,     \* the model.Generate calls made: model and request
    modelRet,       \* what the model's Generate returned
    pret            \* what Prompt.Generate came to

pluginVars == <<mu, initted, serverAddress, ipc, icfg, ires, initLog, defined,
                defPanicAt>>
genVars == <<g, gpc, input, cbSet, requests, status, body, lines, chunks, cbLog, cbActive, ret,
             stepErr, firstCbFailed>>
bvVars == <<bvIn, bvRet>>
promptVars == <<pcfg, prompt, actions, regLog, ppc, preq, modelCalls, modelRet, pret>>
dotVars == <<bvVars, promptVars>>
vars == <<pluginVars, genVars, dotVars>>

InFlight == {p \in Procs : ipc[p] # "idle"}

\* ModelDefinition values and the generators DefineModel builds from them.
ModelTypes == {"chat", "generate"}
Generators ==
    [model : [Name : {"llava"}, Type : ModelTypes], serverAddress : GenAddrs]
NoGenerator == [model |-> [Name |-> "", Type |-> ""], serverAddress |-> ""]

Returned(response, err) == [state |-> "returned", response |-> response, err |-> err]
Panicked == [state |-> "panic", response |-> Nil, err |-> NoErr]
NotReturned == [state |-> "running", response |-> Nil, err |-> NoErr]

\* No generate call has been made.
GenIdle ==
    /\ gpc = "idle"
    /\ input = Nil
    /\ cbSet = FALSE
    /\ requests = <<>>
    /\ status = 0
    /\ body = Nil
    /\ lines = <<>>
    /\ chunks = <<>>
    /\ cbLog = <<>>
    /\ cbActive = 0
    /\ ret = NotReturned
    /\ stepErr = NoErr
    /\ firstCbFailed = FALSE

\* buildVariables has not been called.
BvIdle ==
    /\ bvIn = NilVariables
    /\ bvRet = BvNotCalled

\* A zero Prompt on which nothing has been called.
PromptIdle ==
    /\ pcfg = ZeroPrompt
    /\ prompt = Nil
    /\ actions = <<>>
    /\ regLog = <<>>
    /\ ppc = "idle"
    /\ preq = ZeroPromptRequest
    /\ modelCalls = <<>>
    /\ modelRet = NotCalled2
    /\ pret = NotCalled2

\* The package state before any Init call.
PluginStart ==
    /\ mu = NoProc
    /\ initted = FALSE
    /\ serverAddress = ""
    /\ ipc = [p \in Procs |-> "idle"]
    /\ icfg = [p \in Procs |-> NilConfig]
    /\ ires = [p \in Procs |-> "none"]
    /\ initLog = <<>>
    /\ defined = {}
    /\ defPanicAt = -1
    /\ g = NoGenerator

PluginInit ==
    /\ PluginStart
    /\ GenIdle
    /\ BvIdle
    /\ PromptIdle

\* state.mu.Lock(): blocks until the mutex is free, then takes it.
Lock_NoExclusion(p) == mu' = p
Lock(p) == mu = NoProc /\ mu' = p

\* deferred state.mu.Unlock()
Unlock(p) == mu' = NoProc

\* if state.initted { panic(...) }
AlreadyInitted_Ignored == FALSE
AlreadyInitted == initted

\* if cfg == nil || cfg.ServerAddress == "" { return errors.New(...) }
InvalidConfig_AcceptsEmpty(c) == c.isNil
InvalidConfig(c) == c.isNil \/ c.ServerAddress = ""

\* A goroutine calls Init(ctx, cfg) and reaches state.mu.Lock().
InitCall(p, c) ==
    /\ ipc[p] = "idle"
    /\ Len(initLog) + Cardinality(InFlight) < MaxCalls
    /\ ipc' = [ipc EXCEPT ![p] = "lock"]
    /\ icfg' = [icfg EXCEPT ![p] = c]
    /\ UNCHANGED <<mu, initted, serverAddress, ires, initLog, defined, defPanicAt, genVars, dotVars>>

\* The goroutine acquires the mutex.
InitLock(p) ==
    /\ ipc[p] = "lock"
    /\ Lock(p)
    /\ ipc' = [ipc EXCEPT ![p] = "check"]
    /\ UNCHANGED <<initted, serverAddress, icfg, ires, initLog, defined, defPanicAt, genVars, dotVars>>

\* The two guards of Init, evaluated while holding the mutex.
InitCheck(p) ==
    /\ ipc[p] = "check"
    /\ IF AlreadyInitted
         THEN /\ ires' = [ires EXCEPT ![p] = "panic"]
              /\ ipc' = [ipc EXCEPT ![p] = "unlock"]
         ELSE IF InvalidConfig(icfg[p])
                THEN /\ ires' = [ires EXCEPT ![p] = "error"]
                     /\ ipc' = [ipc EXCEPT ![p] = "unlock"]
                ELSE /\ ires' = ires
                     /\ ipc' = [ipc EXCEPT ![p] = "writeAddr"]
    /\ UNCHANGED <<mu, initted, serverAddress, icfg, initLog, defined, defPanicAt, genVars, dotVars>>

\* state.serverAddress = cfg.ServerAddress
InitWriteAddr(p) ==
    /\ ipc[p] = "writeAddr"
    /\ serverAddress' = icfg[p].ServerAddress
    /\ ipc' = [ipc EXCEPT ![p] = "writeInitted"]
    /\ UNCHANGED <<mu, initted, icfg, ires, initLog, defined, defPanicAt, genVars, dotVars>>

\* state.initted = true; return nil
InitWriteInitted(p) ==
    /\ ipc[p] = "writeInitted"
    /\ initted' = TRUE
    /\ ires' = [ires EXCEPT ![p] = "nil"]
    /\ ipc' = [ipc EXCEPT ![p] = "unlock"]
    /\ UNCHANGED <<mu, serverAddress, icfg, initLog, defined, defPanicAt, genVars, dotVars>>

\* The deferred Unlock runs and the call ends (return or panic).
InitReturn(p) ==
    /\ ipc[p] = "unlock"
    /\ Unlock(p)
    /\ initLog' = Append(initLog, [proc |-> p, cfg |-> icfg[p], result |-> ires[p]])
    /\ ipc' = [ipc EXCEPT ![p] = "idle"]
    /\ ires' = [ires EXCEPT ![p] = "none"]
    /\ UNCHANGED <<initted, serverAddress, icfg, defined, defPanicAt, genVars, dotVars>>

\* if !state.initted { panic("ollama.Init not called") }
notInitted_Skipped == FALSE
notInitted == ~initted

\* DefineModel(model, caps): the whole body runs under state.mu. It panics
\* when Init has not succeeded, else builds a generator with the stored
\* address and registers it.
DefineModel(model) ==
    /\ mu = NoProc
    /\ IF notInitted
         THEN /\ defPanicAt' = Len(initLog)
              /\ defined' = defined
         ELSE /\ defined' = defined \cup {[model |-> model, serverAddress |-> serverAddress]}
              /\ defPanicAt' = defPanicAt
    /\ UNCHANGED <<mu, initted, serverAddress, ipc, icfg, ires, initLog, genVars, dotVars>>

ModelDefinitions == [Name : {"llava"}, Type : ModelTypes]

PluginNext ==
    \/ \E p \in Procs, c \in Configs : InitCall(p, c)
    \/ \E p \in Procs : InitLock(p)
    \/ \E p \in Procs : InitCheck(p)
    \/ \E p \in Procs : InitWriteAddr(p)
    \/ \E p \in Procs : InitWriteInitted(p)
    \/ \E p \in Procs : InitReturn(p)
    \/ \E model \in ModelDefinitions : DefineModel(model)

PluginSpec == PluginInit /\ [][PluginNext]_vars


\* ------------------------------------------------------ generator.generate
\* The state after a successful Init and a DefineModel: the generator carries
\* the address Init stored.
GenInit ==
    /\ g \in Generators
    /\ mu = NoProc
    /\ initted = TRUE
    /\ serverAddress = g.serverAddress
    /\ ipc = [p \in Procs |-> "idle"]
    /\ icfg = [p \in Procs |-> NilConfig]
    /\ ires = [p \in Procs |-> "none"]
    /\ initLog = <<[proc |-> 1, cfg |-> ConfigOf(g.serverAddress), result |-> "nil"]>>
    /\ defined = {g}
    /\ defPanicAt = -1
    /\ GenIdle
    /\ BvIdle
    /\ PromptIdle

isChatModel == g.model.Type = "chat"

\* Where generate is while cb(ctx, chunk) runs: the call is synchronous.
callbackPosition_Async == "scan"
callbackPosition == "callback"

\* Lines 397-446: build the payload, create the request, hand it to client.Do.
generate(in, cb) ==
    /\ gpc = "idle"
    /\ input' = Ref(in)
    /\ cbSet' = cb
    /\ LET stream == cb
           bp == buildPayload(g, in, stream)
           endpoint == endpointOf(g)
           nerr == newRequestErr(endpoint)
       IN  IF bp.err # NoErr
             THEN /\ ret' = Returned(Nil, bp.err)
                  /\ stepErr' = bp.cause
                  /\ gpc' = "done"
                  /\ requests' = requests
           ELSE IF nerr # NoErr
             THEN /\ ret' = Returned(Nil, Errorf("failed to create request", nerr))
                  /\ stepErr' = nerr
                  /\ gpc' = "done"
                  /\ requests' = requests
           ELSE /\ requests' = Append(requests,
                                  [method |-> "POST", url |-> endpoint,
                                   contentType |-> "application/json",
                                   body |-> Deref(bp.payload)])
                /\ gpc' = "do"
                /\ ret' = ret
                /\ stepErr' = stepErr
    /\ UNCHANGED <<g, status, body, lines, chunks, cbLog, cbActive, firstCbFailed, pluginVars, dotVars>>

\* client.Do returns an error (connection refused, timeout, cancelled context).
clientDoFails(doErr) ==
    /\ gpc = "do"
    /\ ret' = Returned(Nil, Errorf("failed to send request", doErr))
    /\ stepErr' = doErr
    /\ gpc' = "done"
    /\ UNCHANGED <<g, input, cbSet, requests, status, body, lines, chunks, cbLog, cbActive,
                   firstCbFailed, pluginVars, dotVars>>

StatusCodes == {200, 404}

\* client.Do returns a response with some status code.
clientDoResponds(st) ==
    /\ gpc = "do"
    /\ status' = st
    /\ gpc' = IF ~cbSet THEN "readAll" ELSE "scan"
    /\ UNCHANGED <<g, input, cbSet, requests, body, lines, chunks, cbLog, cbActive, ret,
                   stepErr, firstCbFailed, pluginVars, dotVars>>

\* Lines 451-471, the cb == nil branch: io.ReadAll delivers the body (or fails),
\* then the status check, the translation and the assignment of Request.
nonStreaming(data, readErr) ==
    /\ gpc = "readAll"
    /\ gpc' = "done"
    /\ body' = IF readErr # NoErr THEN Nil ELSE Ref(data)
    /\ IF readErr # NoErr
         THEN /\ ret' = Returned(Nil, Errorf("failed to read response body", readErr))
              /\ stepErr' = readErr
       ELSE IF status # 200
         THEN /\ ret' = Returned(Nil, errorsNew("server returned non-200 status"))
              /\ stepErr' = stepErr
       ELSE LET t == IF isChatModel THEN translateChatResponse(data)
                                    ELSE translateModelResponse(data)
            IN  \* response.Request = input, before err is looked at
                /\ stepErr' = t.err
                /\ IF t.response = Nil
                     THEN ret' = Panicked
                   ELSE IF t.err # NoErr
                     THEN ret' = Returned(Nil, Errorf("failed to parse response", t.err))
                   ELSE ret' = Returned(Ref([Deref(t.response) EXCEPT !.Request = input]), NoErr)
    /\ UNCHANGED <<g, input, cbSet, requests, status, lines, chunks, cbLog, cbActive,
                   firstCbFailed, pluginVars, dotVars>>

\* Lines 475-488: scanner.Scan() delivers a line; it is translated and, when
\* that succeeds, appended to chunks and passed to the callback.
scanLine(line) ==
    /\ gpc = "scan"
    /\ Len(lines) < MaxLines
    /\ lines' = Append(lines, line)
    /\ LET t == IF isChatModel THEN translateChatChunk(line)
                               ELSE translateGenerateChunk(line)
       IN  IF t.err # NoErr
             THEN /\ ret' = Returned(Nil, Errorf("failed to translate chunk", t.err))
                  /\ stepErr' = t.err
                  /\ gpc' = "done"
                  /\ UNCHANGED <<chunks, cbLog, cbActive>>
             ELSE /\ chunks' = Append(chunks, t.chunk)
                  /\ cbLog' = Append(cbLog, t.chunk)
                  /\ cbActive' = cbActive + 1
                  /\ gpc' = callbackPosition
                  /\ ret' = ret
                  /\ stepErr' = stepErr
    /\ UNCHANGED <<g, input, cbSet, requests, status, body, firstCbFailed, pluginVars, dotVars>>

\* cb(ctx, chunk) is a bare call statement: its result is never looked at.
callbackAborts_OnError(cbErr) == cbErr # NoErr
callbackAborts(cbErr) == FALSE

\* The callback returns; generate drops its result and scans on.
callbackReturns(cbErr) ==
    /\ cbActive > 0
    /\ cbActive' = cbActive - 1
    /\ firstCbFailed' = (firstCbFailed \/ (Len(cbLog) = 1 /\ cbErr # NoErr))
    /\ IF callbackAborts(cbErr)
         THEN /\ gpc' = "done"
              /\ ret' = Returned(Nil, cbErr)
         ELSE /\ gpc' = IF gpc = "callback" THEN "scan" ELSE gpc
              /\ ret' = ret
    /\ UNCHANGED <<g, input, cbSet, requests, status, body, lines, chunks, cbLog, stepErr,
                   pluginVars, dotVars>>


\* Lines 489-504: Scan() returned false; a scanner error is returned, else
\* the chunks are merged into the final response.
scanEnds(scanErr) ==
    /\ gpc = "scan"
    /\ gpc' = "done"
    /\ IF scanErr # NoErr
         THEN ret' = Returned(Nil, Errorf("reading response stream", scanErr))
         ELSE ret' = Returned(Ref([Request |-> input,
                                   FinishReason |-> "stop",
                                   Message |-> [Role |-> "model",
                                                Content |-> mergeContent(chunks, 1)],
                                   Usage |-> "nil"]),
                              NoErr)
    /\ stepErr' = scanErr
    /\ UNCHANGED <<g, input, cbSet, requests, status, body, lines, chunks, cbLog, cbActive,
                   firstCbFailed, pluginVars, dotVars>>

DoErrs == {errorsNew("dial tcp: connection refused")}
ReadErrs == {NoErr, errorsNew("unexpected EOF")}
ScanErrs == {NoErr, errorsNew("bufio.Scanner: token too long")}
CallbackResults == {NoErr, errorsNew("callback failed")}

GenNext ==
    \/ \E in \in Requests, cb \in BOOLEAN : generate(in, cb)
    \/ \E doErr \in DoErrs : clientDoFails(doErr)
    \/ \E st \in StatusCodes : clientDoResponds(st)
    \/ \E data \in Docs, readErr \in ReadErrs : nonStreaming(data, readErr)
    \/ \E line \in Docs : scanLine(line)
    \/ \E cbErr \in CallbackResults : callbackReturns(cbErr)
    \/ \E scanErr \in ScanErrs : scanEnds(scanErr)

GenSpec == GenInit /\ [][GenNext]_vars

\* ------------------------------------------------ Prompt.buildVariables
BvInit ==
    /\ PluginStart
    /\ GenIdle
    /\ PromptIdle
    /\ bvIn \in VariablesValues
    /\ bvRet = BvNotCalled

\* The call p.buildVariables(variables) on the chosen value.
buildVariablesCall ==
    /\ bvRet.state = "none"
    /\ bvRet' = buildVariables(bvIn)
    /\ UNCHANGED <<bvIn, pluginVars, genVars, promptVars>>

BvNext == buildVariablesCall

BvSpec == BvInit /\ [][BvNext]_vars

\* ------------------------------------------- Prompt.Register and Generate
PromptInit ==
    /\ PluginStart
    /\ GenIdle
    /\ BvIdle
    /\ pcfg \in Prompts
    /\ prompt = Nil
    /\ actions = <<>>
    /\ regLog = <<>>
    /\ ppc = "idle"
    /\ preq = ZeroPromptRequest
    /\ modelCalls = <<>>
    /\ modelRet = NotCalled2
    /\ pret = NotCalled2

\* if p.prompt != nil { return nil }
alreadyRegistered_Never == FALSE
alreadyRegistered == prompt # Nil

\* Prompt.Register(). A nil p.InputSchema makes line 157 dereference nil.
Register ==
    /\ ppc # "model"
    /\ Len(regLog) < MaxRegisters
    /\ IF alreadyRegistered
         THEN /\ regLog' = Append(regLog, Returned2(Nil, NoErr))
              /\ UNCHANGED <<pcfg, prompt, actions>>
       ELSE IF pcfg.Name = ""
         THEN /\ regLog' = Append(regLog,
                               Returned2(Nil, errorsNew("attempt to register unnamed prompt")))
              /\ UNCHANGED <<pcfg, prompt, actions>>
       ELSE IF pcfg.InputSchema = Nil
         THEN /\ regLog' = Append(regLog, Panicked2)
              /\ UNCHANGED <<pcfg, prompt, actions>>
       ELSE /\ pcfg' = [pcfg EXCEPT !.InputSchema = Ref([Version |-> ""])]
            /\ actions' = Append(actions, registeredName(pcfg))
            /\ prompt' = Ref(registeredName(pcfg))
            /\ regLog' = Append(regLog, Returned2(Nil, NoErr))
    /\ UNCHANGED <<ppc, preq, modelCalls, modelRet, pret, pluginVars, genVars, bvVars>>

\* Prompt.Generate(ctx, pr, cb) up to its return or to the call of the
\* model's Generate.
Generate(req, renderErr) ==
    /\ ppc = "idle"
    /\ preq' = req
    /\ LET built == IF prompt # Nil
                      THEN promptRender(pcfg, req.Variables, renderErr)
                      ELSE buildRequest(pcfg, req.Variables, renderErr)
       IN IF built.state = "panic"
            THEN /\ ppc' = "done"
                 /\ pret' = Panicked2
                 /\ modelCalls' = modelCalls
          ELSE IF built.err # NoErr
            THEN /\ ppc' = "done"
                 /\ pret' = Returned2(Nil, built.err)
                 /\ modelCalls' = modelCalls
          ELSE IF resolveModel(pcfg, req).err # NoErr
            THEN /\ ppc' = "done"
                 /\ pret' = Returned2(Nil, resolveModel(pcfg, req).err)
                 /\ modelCalls' = modelCalls
          ELSE /\ ppc' = "model"
               /\ pret' = pret
               /\ modelCalls' =
                      Append(modelCalls,
                             [model |-> Deref(resolveModel(pcfg, req).model),
                              req |-> overrideFromRequest(Deref(built.req), req)])
    /\ UNCHANGED <<pcfg, prompt, actions, regLog, modelRet, pluginVars, genVars, bvVars>>

\* model.Generate returns (resp, err) and Prompt.Generate returns in turn.
modelGenerateReturns(resp, err) ==
    /\ ppc = "model"
    /\ ppc' = "done"
    /\ modelRet' = Returned2(resp, err)
    /\ pret' = IF err # NoErr THEN Returned2(Nil, err) ELSE Returned2(resp, NoErr)
    /\ UNCHANGED <<pcfg, prompt, actions, regLog, preq, modelCalls, pluginVars, genVars, bvVars>>

RenderErrs == {NoErr, errorsNew("template: render failed")}
ModelResponses == {Nil, Ref("response")}
ModelErrs == {NoErr, errorsNew("model failed")}

PromptNext ==
    \/ Register
    \/ \E req \in PromptRequests, renderErr \in RenderErrs : Generate(req, renderErr)
    \/ \E resp \in ModelResponses, err \in ModelErrs : modelGenerateReturns(resp, err)

PromptSpec == PromptInit /\ [][PromptNext]_vars

\* ------------------------------------------------------------ claims on Init
LogIdx == 1..Len(initLog)

\* In the order the calls completed, everything after a nil return panicked.
LaterCallsPanic ==
    \A i, j \in LogIdx :
        (i < j /\ initLog[i].result = "nil") => initLog[j].result = "panic"

\* C1: Init is set-once. Once initted is true it stays true and serverAddress
\* is never written again, a call that checks the flag after that ends in a
\* panic, and every call completed after a nil return has panicked.
C1_InitSetOnce ==
    [][ /\ initted => (initted' /\ serverAddress' = serverAddress)
        /\ \A p \in Procs :
              (initted /\ ipc[p] = "check" /\ ipc'[p] # "check")
                  => ires'[p] = "panic"
        /\ LaterCallsPanic' ]_vars

C1_Witness ==
    \E i, j \in LogIdx :
        /\ i < j
        /\ initLog[i].result = "nil"
        /\ initLog[j].result = "panic"
        /\ ValidConfig(initLog[j].cfg)
        /\ initLog[j].cfg # initLog[i].cfg
        /\ serverAddress = initLog[i].cfg.ServerAddress

\* C2: if every completed Init call carried a valid config, exactly one of
\* them returned nil, all the others panicked, and serverAddress is the
\* address of the call that returned nil.
C2_ExactlyOneInitSucceeds ==
    (initLog # <<>> /\ \A i \in LogIdx : ValidConfig(initLog[i].cfg))
        => \E w \in LogIdx :
              /\ initLog[w].result = "nil"
              /\ \A i \in LogIdx \ {w} : initLog[i].result = "panic"
              /\ initted
              /\ serverAddress = initLog[w].cfg.ServerAddress

\* Two goroutines raced with different valid addresses: one call is done,
\* the other one was already waiting for the mutex and is now finishing.
C2_Witness ==
    /\ Len(initLog) = MaxCalls
    /\ \A i \in LogIdx : ValidConfig(initLog[i].cfg)
    /\ \E i, j \in LogIdx :
          /\ initLog[i].proc # initLog[j].proc
          /\ initLog[i].cfg # initLog[j].cfg
          /\ initLog[i].result = "nil"
          /\ initLog[j].result = "panic"

\* C3: an Init with a nil config or an empty ServerAddress, made while the
\* plugin is not initialized, returns an error and writes nothing; the first
\* call with a valid config that follows only failed calls returns nil.
C3_InvalidConfigLeavesState ==
    [][ /\ \A p \in Procs :
              (/\ ipc[p] = "check" /\ ipc'[p] # "check"
               /\ ~initted /\ ~ValidConfig(icfg[p]))
                  => /\ ires'[p] = "error"
                     /\ ipc'[p] = "unlock"
                     /\ initted' = FALSE
                     /\ serverAddress' = serverAddress
        /\ (mu = NoProc /\ \A i \in LogIdx : initLog[i].result = "error")
              => (~initted /\ serverAddress = "")
        /\ \A i \in 1..Len(initLog') :
              (/\ ValidConfig(initLog'[i].cfg)
               /\ \A j \in 1..(i-1) : initLog'[j].result = "error")
                  => initLog'[i].result = "nil" ]_vars

C3_Witness ==
    \E i, j \in LogIdx :
        /\ i < j
        /\ initLog[i].result = "error"
        /\ initLog[i].cfg = ConfigOf("")
        /\ initLog[j].result = "nil"
        /\ \E k \in LogIdx : initLog[k].result = "error" /\ initLog[k].cfg = NilConfig

\* -------------------------------------------------------- claims on generate
LineIdx == 1..Len(lines)
\* The text the model's own response field carries on a line.
LineText(k) == IF g.model.Type = "chat" THEN lines[k].message ELSE lines[k].response
Decodes(doc) == doc.json = "object"
HasUnknownPart(req) ==
    \E i \in 1..Len(req.Messages) :
        \E j \in 1..Len(req.Messages[i].Content) :
            req.Messages[i].Content[j].kind \notin {"text", "media"}
ReturnedError == ret.state = "returned" /\ ret.response = Nil /\ ret.err # NoErr

\* C4: in streaming mode the callback has been invoked exactly once for each
\* line that decoded, the k-th invocation carrying the chunk of the k-th line,
\* and at most one invocation is running at any time (one is running exactly
\* while generate waits in it).
C4_CallbackPerLineInOrder ==
    /\ cbActive <= 1
    /\ (cbActive = 1) <=> (gpc = "callback")
    /\ Len(cbLog) = Cardinality({k \in LineIdx : Decodes(lines[k])})
    /\ \A k \in 1..Len(cbLog) :
          /\ Decodes(lines[k])
          /\ cbLog[k] = Ref([Content |-> <<TextPart(LineText(k))>>])
    /\ ~cbSet => cbLog = <<>>

C4_Witness ==
    /\ cbSet
    /\ gpc = "callback"
    /\ Len(cbLog) = MaxLines
    /\ cbLog[1] # cbLog[Len(cbLog)]

\* C5: in streaming mode, once line k is not valid JSON the call has returned
\* a nil response and an error, the callback was invoked for the k-1 lines
\* before it only, and no callback is running.
C5_MalformedLineAborts ==
    \A k \in LineIdx :
        lines[k].json = "syntax"
            => /\ gpc = "done"
               /\ ReturnedError
               /\ Len(cbLog) = k - 1
               /\ cbActive = 0

C5_Witness ==
    /\ cbSet
    /\ g.model.Type = "chat"
    /\ Len(lines) = MaxLines
    /\ lines[Len(lines)].json = "syntax"
    /\ Len(cbLog) = MaxLines - 1
    /\ gpc = "done"

\* C6: a streaming call that returns without error returns a response whose
\* Message.Content has one text part per line, part k from line k and equal to
\* the content of the k-th chunk given to the callback, with Role model,
\* FinishReason stop and Request the input request.
C6_MergedResponse ==
    (cbSet /\ gpc = "done" /\ ret.state = "returned" /\ ret.err = NoErr)
        => /\ ret.response # Nil
           /\ LET r == Deref(ret.response) IN
              /\ Len(r.Message.Content) = Len(lines)
              /\ Len(cbLog) = Len(lines)
              /\ \A k \in LineIdx :
                    /\ r.Message.Content[k] = TextPart(LineText(k))
                    /\ <<r.Message.Content[k]>> = Deref(cbLog[k]).Content
              /\ r.Message.Role = "model"
              /\ r.FinishReason = "stop"
              /\ input # Nil
              /\ r.Request = input

C6_Witness ==
    /\ cbSet
    /\ gpc = "done"
    /\ ret.state = "returned"
    /\ ret.err = NoErr
    /\ Len(lines) = MaxLines
    /\ LineText(1) # LineText(Len(lines))
    /\ Deref(input).Messages # <<>>

\* C7: whenever the provider answered with a status other than 200, no chunk
\* is delivered to the callback and the call returns a nil response and an
\* error, with or without a callback.
C7_Non200IsError ==
    (status # 0 /\ status # 200)
        => /\ cbLog = <<>>
           /\ gpc = "done" => ReturnedError

\* C8: a non-streaming call that got status 200 and a body that is not valid
\* JSON returns a nil response and a non-nil error; it does not fault.
C8_BadBodyReturnsError ==
    (~cbSet /\ gpc = "done" /\ status = 200 /\ body # Nil /\ Deref(body).json = "syntax")
        => ReturnedError

\* C9 as stated: at most one request is ever sent, and exactly one, to the
\* endpoint of the model type and with stream = (cb # nil), once the payload
\* was built successfully.
C9_OneRequestWhenPayloadBuilt ==
    /\ Len(requests) <= 1
    /\ (gpc # "idle" /\ buildPayload(g, Deref(input), cbSet).err = NoErr)
          => Len(requests) = 1

\* C9 amended: at most one request is ever sent; exactly one is sent when the
\* payload was built and http.NewRequest accepted the endpoint URL, none
\* otherwise; it is a POST to <serverAddress>/api/chat for a chat model and
\* <serverAddress>/api/generate otherwise, with stream = (cb # nil); a call
\* that ended in an error has still sent at most that one request.
C9_OneRequestWhenCreated ==
    /\ Len(requests) <= 1
    /\ gpc = "idle" => requests = <<>>
    /\ gpc # "idle" =>
          /\ (Len(requests) = 1) <=>
                (/\ buildPayload(g, Deref(input), cbSet).err = NoErr
                 /\ g.serverAddress # BadURLAddr)
          /\ \A i \in 1..Len(requests) :
                /\ requests[i].method = "POST"
                /\ requests[i].url = g.serverAddress \o
                      (IF g.model.Type = "chat" THEN "/api/chat" ELSE "/api/generate")
                /\ requests[i].body.Stream = cbSet

C9_Witness ==
    /\ gpc = "done"
    /\ ReturnedError
    /\ status = 404
    /\ g.model.Type = "generate"
    /\ Len(requests) = 1
    /\ requests[1].body.Stream = FALSE

\* C10: a call whose input holds a part that is neither text nor media has
\* sent no HTTP request and returns a nil response and an error, whatever the
\* model type.
C10_UnknownPartIsError ==
    (gpc # "idle" /\ HasUnknownPart(Deref(input)))
        => /\ requests = <<>>
           /\ gpc = "done"
           /\ ReturnedError


\* The prefixes generate puts before the message of a failing step.
StepPrefixes ==
    {"failed to grab image parts", "failed to convert message parts",
     "failed to create request", "failed to send request",
     "failed to read response body", "failed to parse response",
     "failed to translate chunk", "reading response stream"}
StepFailed == gpc = "done" /\ ret.state = "returned" /\ stepErr # NoErr

\* C14 as stated: when a translation or HTTP step failed, the error generate
\* returns is the very error value that step produced.
C14_StepErrorReturnedAsIs ==
    StepFailed => ret.err = stepErr

\* C14 amended: when a translation or HTTP step failed and generate returns,
\* it returns a nil response and a new error, never the step's own error
\* value: the message of the step's error preceded by the prefix generate
\* gives that step.
C14_StepErrorReformatted ==
    StepFailed
        => /\ ret.response = Nil
           /\ ret.err # stepErr
           /\ Len(ret.err) = Len(stepErr) + 1
           /\ Head(ret.err) \in StepPrefixes
           /\ Tail(ret.err) = stepErr

C14_Witness ==
    /\ StepFailed
    /\ cbSet
    /\ Len(cbLog) = MaxLines - 1
    /\ Len(lines) = MaxLines
    /\ ret.err = <<"failed to translate chunk">> \o stepErr

\* C16: an error returned by the callback does not stop the stream. After the
\* first invocation returned an error the call keeps running, the callback is
\* still invoked for every line that decodes, and a stream that ends without
\* a decode or scanner error returns the merged response of all its lines
\* with a nil error; whatever any invocation returned, a streaming call that
\* got a response returns an error only when a decode or the scanner failed.
C16_CallbackErrorIgnored ==
    /\ firstCbFailed =>
          /\ gpc # "done" => ret = NotReturned
          /\ Len(cbLog) = Cardinality({k \in LineIdx : Decodes(lines[k])})
          /\ (gpc = "done" /\ stepErr = NoErr)
                => /\ ret.state = "returned"
                   /\ ret.err = NoErr
                   /\ ret.response # Nil
                   /\ Len(Deref(ret.response).Message.Content) = Len(lines)
    /\ (cbSet /\ status # 0 /\ gpc = "done" /\ ret.err # NoErr) => stepErr # NoErr

C16_Witness ==
    /\ firstCbFailed
    /\ Len(cbLog) = MaxLines
    /\ Len(cbLog) > 1
    /\ gpc = "done"
    /\ ret.state = "returned"
    /\ ret.err = NoErr


\* ----------------------------------------------------- claims on DefineModel
\* C17: a DefineModel call made while initted is false panics and creates no
\* generator, also after Init calls that failed; a generator is only created
\* once initted is true, and every generator created carries a non-empty
\* serverAddress, the one a successful Init stored.
C17_DefineModelNeedsInit ==
    [][ /\ defPanicAt' # defPanicAt =>
              (~initted /\ defined' = defined /\ defPanicAt' = Len(initLog))
        /\ defined' # defined => (initted /\ defPanicAt' = defPanicAt)
        /\ ~initted' => defined' = {}
        /\ \A gen \in defined' :
              /\ gen.serverAddress # ""
              /\ gen.serverAddress = serverAddress'
              /\ \E i \in 1..Len(initLog') :
                    /\ initLog'[i].result = "nil"
                    /\ initLog'[i].cfg.ServerAddress = gen.serverAddress ]_vars

C17_Witness ==
    /\ defPanicAt > 0
    /\ initLog[defPanicAt].result = "error"
    /\ Cardinality(defined) = Cardinality(ModelTypes)
    /\ \A gen \in defined : gen.serverAddress = serverAddress

\* ---------------------------------------------- claims on buildVariables
BvDone == bvRet.state # "none"

\* buildVariables was handed a struct or a non-nil pointer to a struct.
StructInput == bvIn.kind = "struct" /\ bvIn.ptr # "nil"

SerializationName(f) ==
    IF Len(f.tag) > 0 /\ f.tag[1] # "" THEN f.tag[1] ELSE f.Name
TaggedOmitEmpty(f) == \E i \in 2..Len(f.tag) : f.tag[i] = "omitempty"

\* The fields the claim says yield a key: exported and not both zero-valued
\* and tagged omitempty.
YieldingFields ==
    {i \in 1..Len(bvIn.fields) :
        /\ bvIn.fields[i].exported
        /\ ~(bvIn.fields[i].value = 0 /\ TaggedOmitEmpty(bvIn.fields[i]))}
KeySetIsYieldingNames ==
    /\ bvRet.state = "returned"
    /\ bvRet.err = NoErr
    /\ bvRet.map # Nil
    /\ DOMAIN Deref(bvRet.map) = {SerializationName(bvIn.fields[i]) : i \in YieldingFields}
LastYielding(key) ==
    CHOOSE i \in YieldingFields :
        /\ SerializationName(bvIn.fields[i]) = key
        /\ \A j \in YieldingFields : SerializationName(bvIn.fields[j]) = key => j <= i

\* C11 (as stated): for a struct input the returned map's key set is exactly
\* the serialization names of the exported fields that are not both zero and
\* omitempty, and every such field's key is bound to that field's value.
C11_EveryFieldBoundToItsValue ==
    (BvDone /\ StructInput) =>
        /\ KeySetIsYieldingNames
        /\ \A i \in YieldingFields :
              Deref(bvRet.map)[SerializationName(bvIn.fields[i])] = bvIn.fields[i].value

\* C11 (amended): for a struct input the returned map's key set is exactly
\* the serialization names of the exported fields that are not both zero and
\* omitempty, and every key is bound to the value of the last such field, in
\* declaration order, that has this serialization name.
C11_KeyBoundToLastField ==
    (BvDone /\ StructInput) =>
        /\ KeySetIsYieldingNames
        /\ \A key \in DOMAIN Deref(bvRet.map) :
              Deref(bvRet.map)[key] = bvIn.fields[LastYielding(key)].value

\* buildVariables has returned the map of a struct in which two yielding
\* fields share a serialization name and differ in value.
C11_Witness ==
    /\ BvDone /\ StructInput
    /\ bvRet.state = "returned"
    /\ \E i, j \in YieldingFields :
          /\ i < j
          /\ SerializationName(bvIn.fields[i]) = SerializationName(bvIn.fields[j])
          /\ bvIn.fields[i].value # bvIn.fields[j].value

\* C15: buildVariables never faults: nil gives (nil, nil), a map or pointer
\* to a map gives that same map and no error, a struct or pointer to struct
\* gives a built map and no error, any other kind gives a nil map and an
\* error.
C15_BuildVariablesTotal ==
    BvDone =>
        /\ bvRet.state = "returned"
        /\ bvIn.kind = "nil" => (bvRet.map = Nil /\ bvRet.err = NoErr)
        /\ bvIn.kind = "map" => (bvRet.map = Ref(bvIn.entries) /\ bvRet.err = NoErr)
        /\ bvIn.kind = "struct" => (bvRet.map # Nil /\ bvRet.err = NoErr)
        /\ bvIn.kind \notin {"nil", "map", "struct"} => (bvRet.map = Nil /\ bvRet.err # NoErr)

\* -------------------------------------- claims on Register and Generate
RegisterSucceeded(i) == regLog[i] = Returned2(Nil, NoErr)
SomeRegisterSucceeded == \E i \in DOMAIN regLog : RegisterSucceeded(i)
ExpectedActionName ==
    IF pcfg.Variant = "" THEN pcfg.Name ELSE pcfg.Name \o "." \o pcfg.Variant

\* C12: a non-empty PromptRequest.Model overrides the prompt's model: the
\* model that receives the request is the one PromptRequest.Model names,
\* whether the prompt has a Model object or a ModelName.
C12_RequestModelOverrides ==
    (Len(modelCalls) = 1 /\ preq.Model # <<>>) =>
        modelCalls[1].model.provider \o <<"/">> \o modelCalls[1].model.name = preq.Model

\* C13: the request handed to the model asks for PromptRequest.Candidates
\* candidates when that is non-zero, and otherwise for the prompt config's
\* count or 1, so for at least one.
C13_CandidatesFromRequest ==
    Len(modelCalls) = 1 =>
        IF preq.Candidates # 0
          THEN modelCalls[1].req.Candidates = preq.Candidates
          ELSE modelCalls[1].req.Candidates >= 1

\* C18: Register defines the prompt action at most once: with an empty Name
\* every Register returns an error and p.prompt stays nil; the first
\* successful Register defines one action named Name, or Name.Variant with a
\* Variant; every later Register returns nil and neither defines another
\* action nor changes p.prompt.
C18_RegisterDefinesOnce ==
    /\ Len(actions) <= 1
    /\ pcfg.Name = "" =>
          /\ prompt = Nil
          /\ actions = <<>>
          /\ \A i \in DOMAIN regLog : regLog[i].state = "returned" /\ regLog[i].err # NoErr
    /\ IF SomeRegisterSucceeded
         THEN /\ actions = <<ExpectedActionName>>
              /\ prompt = Ref(ExpectedActionName)
              /\ \A i, j \in DOMAIN regLog : (i < j /\ RegisterSucceeded(i)) => RegisterSucceeded(j)
         ELSE /\ actions = <<>>
              /\ prompt = Nil

\* Register was called twice on a prompt with a Variant and succeeded twice.
C18_Witness ==
    /\ Len(regLog) = 2
    /\ RegisterSucceeded(1) /\ RegisterSucceeded(2)
    /\ pcfg.Variant # ""
    /\ actions = <<"greet.formal">>

EffectiveName == IF preq.Model # <<>> THEN preq.Model ELSE pcfg.ModelName
Unresolvable ==
    /\ pcfg.Model = Nil
    /\ \/ EffectiveName = <<>>
       \/ \A i \in DOMAIN EffectiveName : EffectiveName[i] # "/"
       \/ \A m \in RegisteredModels : EffectiveName # m.provider \o <<"/">> \o m.name

\* C19: Generate either fails without invoking a model, returning a nil
\* response and an error (always so when the model cannot be resolved), or
\* calls the resolved model's Generate exactly once and returns its response
\* or error as is.
C19_ModelCalledOnlyWhenResolved ==
    /\ Unresolvable => Len(modelCalls) = 0
    /\ ppc = "done" =>
          \/ /\ Len(modelCalls) = 0
             /\ pret.state = "returned"
             /\ pret.resp = Nil
             /\ pret.err # NoErr
          \/ /\ Len(modelCalls) = 1
             /\ pret.state = "returned"
             /\ IF modelRet.err # NoErr
                  THEN pret.err = modelRet.err
                  ELSE pret.resp = modelRet.resp /\ pret.err = NoErr

====
